---- MODULE Spec2Model ----
(***************************************************************************)
(* ttvy_core: the chat client (chat.rs) and its connection supervisor      *)
(* (chat_controller.rs).                                                   *)
(*                                                                         *)
(* A str is a sequence of characters.  An ASCII character is a string of   *)
(* one character; any other character is a string "U+XXXX" listed with its *)
(* code point in NamedChars (U+E0000, of the repeat-message workaround, is *)
(* TAG0).  Bytes are the numbers 0..255.  An Option<T> is a record         *)
(* [some |-> FALSE] or [some |-> TRUE, val |-> v].                          *)
(***************************************************************************)
EXTENDS Integers, Sequences, FiniteSets, TLC

\* ------------------------------------------------------------ bounds
\* calls of the host and events of the sockets in one run of the client
MaxEvents == 3
\* outgoing lines given to one session
MaxOut == 4
\* characters before and after the middle of a parser input
MaxHead == 3
MaxTail == 2
\* tag pairs in a tagged parser input
MaxTags == 2

\* ------------------------------------------------------------ std::str
None == [some |-> FALSE]
Some(v) == [some |-> TRUE, val |-> v]

CR == "\r"
LF == "\n"
CRLF == <<CR, LF>>
TAG0 == "U+E0000"

\* the printable ASCII characters, U+0020 to U+007E in order (the grave accent
\* by its name)
Ascii ==
    << " ", "!", "\"", "#", "$", "%", "&", "'", "(", ")", "*", "+", ",", "-", ".", "/",
       "0", "1", "2", "3", "4", "5", "6", "7", "8", "9", ":", ";", "<", "=", ">", "?",
       "@", "A", "B", "C", "D", "E", "F", "G", "H", "I", "J", "K", "L", "M", "N", "O",
       "P", "Q", "R", "S", "T", "U", "V", "W", "X", "Y", "Z", "[", "\\", "]", "^", "_",
       "U+0060", "a", "b", "c", "d", "e", "f", "g", "h", "i", "j", "k", "l", "m", "n", "o",
       "p", "q", "r", "s", "t", "u", "v", "w", "x", "y", "z", "{", "|", "}", "~" >>

\* the characters outside ASCII that occur, each with its code point
NamedChars ==
    { <<"U+00A9", 169>>, <<"U+00C3", 195>>, <<"U+00E9", 233>>, <<"U+00FF", 255>>,
      <<"U+20AC", 8364>>, <<TAG0, 917504>> }

\* char as u32
code_point(c) ==
    IF c = LF THEN 10
    ELSE IF c = CR THEN 13
    ELSE IF \E i \in 1..Len(Ascii) : Ascii[i] = c
    THEN 31 + CHOOSE i \in 1..Len(Ascii) : Ascii[i] = c
    ELSE (CHOOSE p \in NamedChars : p[1] = c)[2]

\* char::from_u32, and u8 as char
char_from_u32(u) ==
    IF u = 10 THEN LF
    ELSE IF u = 13 THEN CR
    ELSE IF u \in 32..126 THEN Ascii[u - 31]
    ELSE (CHOOSE p \in NamedChars : p[2] = u)[1]

\* the UTF-8 length of a code point
utf8_width(u) == IF u < 128 THEN 1 ELSE IF u < 2048 THEN 2 ELSE IF u < 65536 THEN 3 ELSE 4

\* char::encode_utf8: the bytes of a character in a str
encode_utf8(c) ==
    LET u == code_point(c)
    IN  IF u < 128 THEN <<u>>
        ELSE IF u < 2048 THEN <<192 + (u \div 64), 128 + (u % 64)>>
        ELSE IF u < 65536
        THEN <<224 + (u \div 4096), 128 + ((u \div 64) % 64), 128 + (u % 64)>>
        ELSE <<240 + (u \div 262144), 128 + ((u \div 4096) % 64),
               128 + ((u \div 64) % 64), 128 + (u % 64)>>

\* str::as_bytes
RECURSIVE as_bytes(_)
as_bytes(s) == IF s = <<>> THEN <<>> ELSE encode_utf8(Head(s)) \o as_bytes(Tail(s))

\* the length of the UTF-8 sequence a byte begins, 0 for a byte that begins none
utf8_char_width(b) ==
    IF b < 128 THEN 1
    ELSE IF b \in 194..223 THEN 2
    ELSE IF b \in 224..239 THEN 3
    ELSE IF b \in 240..244 THEN 4
    ELSE 0

\* the code point of the UTF-8 sequence of n bytes at v[i]
utf8_scalar(v, i, n) ==
    IF n = 1 THEN v[i]
    ELSE IF n = 2 THEN (v[i] - 192) * 64 + (v[i + 1] - 128)
    ELSE IF n = 3 THEN (v[i] - 224) * 4096 + (v[i + 1] - 128) * 64 + (v[i + 2] - 128)
    ELSE (v[i] - 240) * 262144 + (v[i + 1] - 128) * 4096 + (v[i + 2] - 128) * 64
         + (v[i + 3] - 128)

\* std::str::from_utf8: Some(str) when the bytes are well-formed UTF-8, None
\* otherwise.  The bytes are well-formed when every byte that is no continuation
\* byte (80..BF) begins a sequence of its width, followed by exactly that many
\* continuation bytes, in shortest form, of no surrogate and at most U+10FFFF.
from_utf8(v) ==
    LET cont(i) == v[i] \in 128..191
        leads == SelectSeq([i \in 1..Len(v) |-> i], LAMBDA i : ~cont(i))
        ok(i) ==
            LET n == utf8_char_width(v[i])
            IN  /\ n # 0
                /\ i + n - 1 <= Len(v)
                /\ \A k \in (i + 1)..(i + n - 1) : cont(k)
                /\ i + n <= Len(v) => ~cont(i + n)
                /\ LET u == utf8_scalar(v, i, n)
                   IN  utf8_width(u) = n /\ u \notin 55296..57343 /\ u <= 1114111
    IN  IF (v # <<>> => ~cont(1)) /\ \A k \in 1..Len(leads) : ok(leads[k])
        THEN Some([k \in 1..Len(leads) |->
                      char_from_u32(utf8_scalar(v, leads[k], utf8_char_width(v[leads[k]])))])
        ELSE None

\* str::find: the index of the first occurrence of sub in s, 0 when there is none
Find(s, sub) ==
    LET hits == {i \in 1..(Len(s) - Len(sub) + 1) : SubSeq(s, i, i + Len(sub) - 1) = sub}
    IN  IF hits = {} THEN 0 ELSE CHOOSE i \in hits : \A j \in hits : i <= j

\* str::contains
Contains(s, sub) == Find(s, sub) # 0

\* str::split_once: Option<(before, after)> around the first occurrence of sub
split_once(s, sub) ==
    LET i == Find(s, sub)
    IN  IF i = 0 THEN None
        ELSE Some(<<SubSeq(s, 1, i - 1), SubSeq(s, i + Len(sub), Len(s))>>)

\* str::strip_suffix
strip_suffix(s, suf) ==
    IF Len(suf) <= Len(s) /\ SubSeq(s, Len(s) - Len(suf) + 1, Len(s)) = suf
    THEN Some(SubSeq(s, 1, Len(s) - Len(suf)))
    ELSE None

\* char::len_utf8: the bytes of a character in a str
len_utf8(c) == utf8_width(code_point(c))

\* str::get(1..): None when byte 1 is out of bounds or no character boundary,
\* that is, unless the first character is one byte long
get_from_1(s) ==
    IF 1 <= Len(s) /\ len_utf8(s[1]) = 1 THEN Some(SubSeq(s, 2, Len(s))) ELSE None

\* str::splitn(3, ':').last(): the last of at most three pieces
splitn3_last(s, c) ==
    LET a == split_once(s, <<c>>)
    IN  IF ~a.some THEN s
        ELSE LET b == split_once(a.val[2], <<c>>)
             IN  IF ~b.some THEN a.val[2] ELSE b.val[2]

\* str::split(c): all pieces, in order
RECURSIVE split(_, _)
split(s, c) ==
    LET a == split_once(s, <<c>>)
    IN  IF ~a.some THEN <<s>> ELSE <<a.val[1]>> \o split(a.val[2], c)

\* ------------------------------------------------------------ mod parse
Panic == [kind |-> "panic"]
NoMessage == [kind |-> "none"]
Message(m) == [kind |-> "some", msg |-> m]
ChatMessage(author, color, message) ==
    [author |-> author, color |-> color, message |-> message]

\* parse_tags: split on ';', keep the pairs that hold '=', collect into a map.
\* The result is the sequence of (key, value) pairs in order; HashMap::get on
\* the collected map sees the last pair of a key.
parse_tags(tags) ==
    LET pieces == split(tags, ";")
        kept == SelectSeq(pieces, LAMBDA p : Contains(p, <<"=">>))
    IN  [i \in 1..Len(kept) |-> split_once(kept[i], <<"=">>).val]

\* a map whose get sees the first pair of a key
tags_get_first(pairs, key) ==
    LET hits == {i \in 1..Len(pairs) : pairs[i][1] = key}
    IN  IF hits = {} THEN None
        ELSE Some(pairs[CHOOSE i \in hits : \A j \in hits : i <= j][2])

\* HashMap::get on the collected map
tags_get(pairs, key) ==
    LET hits == {i \in 1..Len(pairs) : pairs[i][1] = key}
    IN  IF hits = {} THEN None
        ELSE Some(pairs[CHOOSE i \in hits : \A j \in hits : j <= i][2])

DISPLAY_NAME == <<"d","i","s","p","l","a","y","-","n","a","m","e">>
COLOR == <<"c","o","l","o","r">>

\* format_user_message keeping the author's leading ':'
format_user_message_author_first(str) ==
    LET line == split_once(str, CRLF)
    IN  IF ~line.some THEN Panic
        ELSE LET s == line.val[1]
                 bang == split_once(s, <<"!">>)
                 message == splitn3_last(s, ":")
             IN  IF ~bang.some THEN NoMessage
                 ELSE Message(ChatMessage(bang.val[1], None, message))

\* format_user_message with an empty author when the line has no '!'
format_user_message_anonymous(str) ==
    LET line == split_once(str, CRLF)
    IN  IF ~line.some THEN Panic
        ELSE LET s == line.val[1]
                 bang == split_once(s, <<"!">>)
                 message == splitn3_last(s, ":")
             IN  IF ~bang.some THEN Message(ChatMessage(<<>>, None, message))
                 ELSE LET author == get_from_1(bang.val[1])
                      IN  IF ~author.some THEN Panic
                          ELSE Message(ChatMessage(author.val, None, message))

\* parse::format_user_message (the untagged shape)
format_user_message(str) ==
    LET line == split_once(str, CRLF)
    IN  IF ~line.some THEN Panic
        ELSE LET s == line.val[1]
                 bang == split_once(s, <<"!">>)
                 message == splitn3_last(s, ":")
             IN  IF ~bang.some THEN NoMessage
                 ELSE LET author == get_from_1(bang.val[1])
                      IN  IF ~author.some THEN Panic
                          ELSE Message(ChatMessage(author.val, None, message))

\* format_user_message_with_tags with an empty author when display-name is missing
format_user_message_with_tags_anonymous(str) ==
    LET line == split_once(str, CRLF)
    IN  IF ~line.some THEN Panic
        ELSE LET head == split_once(line.val[1], <<" ", ":">>)
             IN  IF ~head.some THEN NoMessage
                 ELSE LET tail == split_once(head.val[2], <<" ", ":">>)
                      IN  IF ~tail.some THEN NoMessage
                          ELSE LET tags == parse_tags(head.val[1])
                                   author == tags_get(tags, DISPLAY_NAME)
                               IN  Message(ChatMessage(IF author.some THEN author.val ELSE <<>>,
                                                       tags_get(tags, COLOR),
                                                       tail.val[2]))

\* parse::format_user_message_with_tags (the tagged shape)
format_user_message_with_tags(str) ==
    LET line == split_once(str, CRLF)
    IN  IF ~line.some THEN Panic
        ELSE LET head == split_once(line.val[1], <<" ", ":">>)
             IN  IF ~head.some THEN NoMessage
                 ELSE LET tail == split_once(head.val[2], <<" ", ":">>)
                      IN  IF ~tail.some THEN NoMessage
                          ELSE LET tags == parse_tags(head.val[1])
                                   author == tags_get(tags, DISPLAY_NAME)
                               IN  IF ~author.some THEN NoMessage
                                   ELSE Message(ChatMessage(author.val,
                                                            tags_get(tags, COLOR),
                                                            tail.val[2]))

ACK_TAGS == <<"A","C","K"," ",":","t","w","i","t","c","h",".","t","v","/","t","a","g","s">>
PRIVMSG == <<"P","R","I","V","M","S","G">>

\* a dispatch that takes every chat line as tagged, whatever the flag
handle_websocket_message_tagged(m, read_tags_allowed) ==
    IF Contains(m, ACK_TAGS)
    THEN [tags |-> TRUE, publish |-> None, panic |-> FALSE, parser |-> "ack"]
    ELSE IF Contains(m, PRIVMSG)
    THEN LET r == format_user_message_with_tags(m)
         IN  [tags |-> read_tags_allowed,
              publish |-> IF r.kind = "some" THEN Some(r.msg) ELSE None,
              panic |-> r.kind = "panic", parser |-> "tagged"]
    ELSE [tags |-> read_tags_allowed, publish |-> None, panic |-> FALSE,
          parser |-> "noise"]

\* handle_websocket_message: what one decoded inbound line does to the session.
\* tags: the new read_tags_allowed; publish: the message sent to
\* incoming_message_tx, if any; panic: the task panicked while parsing.
handle_websocket_message(m, read_tags_allowed) ==
    IF Contains(m, ACK_TAGS)
    THEN [tags |-> TRUE, publish |-> None, panic |-> FALSE, parser |-> "ack"]
    ELSE IF read_tags_allowed /\ Contains(m, PRIVMSG)
    THEN LET r == format_user_message_with_tags(m)
         IN  [tags |-> read_tags_allowed,
              publish |-> IF r.kind = "some" THEN Some(r.msg) ELSE None,
              panic |-> r.kind = "panic", parser |-> "tagged"]
    ELSE IF Contains(m, PRIVMSG)
    THEN LET r == format_user_message(m)
         IN  [tags |-> read_tags_allowed,
              publish |-> IF r.kind = "some" THEN Some(r.msg) ELSE None,
              panic |-> r.kind = "panic", parser |-> "plain"]
    ELSE [tags |-> read_tags_allowed, publish |-> None, panic |-> FALSE,
          parser |-> "noise"]


\* ------------------------------------------------------------ constants
\* the capacity of every mpsc channel
ChannelCapacity == 128

\* the lock's owner when Controller::send holds it
SENDER == -1

\* ------------------------------------------------------------ state
VARIABLES
    config,        \* Chat.config : Config
    handle,        \* Controller.handle : 0 is None, g > 0 the supervisor task g
    nsup,          \* supervisor tasks spawned so far
    sup,           \* the supervisor tasks (the futures spawned by supervise)
    lockOwner,     \* websocket_tx's Mutex: 0 free, g the supervisor g, SENDER
    lockWaiters,   \* the Mutex's FIFO wait queue
    slot,          \* *websocket_tx : 0 is None, s the Sender of session s
    nsess,         \* sessions (connect tasks) spawned so far
    sess,          \* the connect tasks with their channels and proxy workers
    output,        \* the durable channel proxy_tx -> Chat.output
    received,      \* what receive() has returned, in order
    proxied,       \* history: what the proxy workers have sent to proxy_tx
    outputFrom,    \* history: for each message in output, its <<session, frame>>
    receivedFrom,  \* history: the same for each message in received
    sendPc,        \* Chat::send: "idle", or "lock" from lock().await on
    sendText,      \* its argument
    nevents,       \* calls of the host and events of the sockets so far
    input,         \* the parser's input
    parsed         \* and its result

vars == <<config, handle, nsup, sup, lockOwner, lockWaiters, slot, nsess, sess,
          output, received, proxied, outputFrom, receivedFrom, sendPc, sendText, nevents, input, parsed>>

hostVars == <<config, handle, nsup, sendPc, sendText>>
lockVars == <<lockOwner, lockWaiters>>
chanVars == <<output, received, proxied, outputFrom, receivedFrom>>
parseVars == <<input, parsed>>

Sups == 1..MaxEvents
Sessions == 1..MaxEvents

Channels == {<<"c","1">>}

\* Config::default
DefaultConfig == [channel |-> None, oauth |-> None, nick |-> None]

\* impl From<Config> for ConnectConfig
ConnectConfig(value) ==
    [channel |-> value.channel, oauth |-> value.oauth, nick |-> value.nick]

NoSup == [pc |-> "unspawned", aborted |-> FALSE, cfg |-> DefaultConfig, cur |-> 0]
NoSession ==
    [state |-> "unused", sup |-> 0, cfg |-> DefaultConfig,
     outq |-> <<>>, inq |-> <<>>, proxy |-> "none",
     read_tags_allowed |-> FALSE, last_sent_message |-> <<>>,
     socket |-> FALSE, wire |-> <<>>, taken |-> <<>>,
     pending |-> <<>>, held |-> <<>>, polling |-> FALSE,
     nframes |-> 0, inqFrame |-> <<>>, heldFrame |-> <<>>, lastFrame |-> <<>>]

\* Chat::new with Controller::new
SystemInit ==
    /\ config = DefaultConfig
    /\ handle = 0
    /\ nsup = 0
    /\ sup = [g \in Sups |-> NoSup]
    /\ lockOwner = 0
    /\ lockWaiters = <<>>
    /\ slot = 0
    /\ nsess = 0
    /\ sess = [s \in Sessions |-> NoSession]
    /\ output = <<>>
    /\ received = <<>>
    /\ proxied = <<>>
    /\ outputFrom = <<>>
    /\ receivedFrom = <<>>
    /\ sendPc = "idle"
    /\ sendText = <<>>
    /\ nevents = 0

Unparsed == [kind |-> "unparsed"]

Init ==
    /\ SystemInit
    /\ input = <<>>
    /\ parsed = Unparsed

Alive(s) == sess[s].state \in {"handshake", "loop", "publishing", "sending"}

\* the proxy worker of session s still has its Receiver: it has not been
\* aborted, or it has but is in the middle of a poll and runs on to its next
\* pending await
ProxyRuns(s) == sess[s].proxy = "alive" \/ (sess[s].proxy = "aborted" /\ sess[s].polling)
Ended(s) == sess[s].state \in {"returned", "panicked"}

\* ------------------------------------------------------------ the Mutex
\* dropping the guard: the lock passes to the first waiter, if any
ReleasedOwner(waiters) == IF waiters = <<>> THEN 0 ELSE Head(waiters)
ReleasedWaiters(waiters) == IF waiters = <<>> THEN <<>> ELSE Tail(waiters)

Without(waiters, w) == SelectSeq(waiters, LAMBDA x : x # w)


\* ------------------------------------------------------------ connect
\* Option::get_or_insert_with
get_or_insert_with(o, d) == IF o.some THEN o.val ELSE d

PASS_OAUTH == <<"P","A","S","S"," ","o","a","u","t","h",":">>
BLAH == <<"b","l","a","h">>
NICK_ == <<"N","I","C","K"," ">>
JUSTINFAN == <<"j","u","s","t","i","n","f","a","n","3","5","4","6","7","8">>
JOIN_ == <<"J","O","I","N"," ","#">>
CAP_REQ == <<"C","A","P"," ","R","E","Q"," ",":","t","w","i","t","c","h",".","t","v","/","t","a","g","s">>

\* the four lines connect sends before its loop (chat.rs 100-116)
HandshakeLines(cfg) ==
    << PASS_OAUTH \o get_or_insert_with(cfg.oauth, BLAH),
       NICK_ \o get_or_insert_with(cfg.nick, JUSTINFAN) \o <<LF, CR>>,
       JOIN_ \o cfg.channel.val \o <<LF, CR>>,
       CAP_REQ >>

\* the marker of the repeat-message workaround: " \u{E0000}"
MARKER == <<" ", TAG0>>

\* the workaround without its toggle
RepeatNoToggle(last_sent_message, msg0) ==
    Some(IF msg0 = <<>> THEN last_sent_message ELSE msg0)

\* the repeat-message workaround (chat.rs 145-155): the content to transmit for
\* the outgoing line msg0, or None when strip_suffix(..).unwrap() panics
Repeat(last_sent_message, msg0) ==
    LET msg == IF msg0 = <<>> THEN last_sent_message ELSE msg0
    IN  IF last_sent_message = msg
        THEN IF Contains(msg, MARKER)
             THEN LET stripped == strip_suffix(msg, MARKER)
                  IN  IF stripped.some THEN Some(stripped.val) ELSE None
             ELSE Some(msg \o MARKER)
        ELSE Some(msg)

\* format!("PRIVMSG #{} :{}", channel, msg)
PrivmsgLine(channel, msg) == PRIVMSG \o <<" ", "#">> \o channel \o <<" ", ":">> \o msg

\* the frame's payload as text (chat.rs 126-133): the str it encodes, or, when
\* it is no UTF-8, its bytes as characters one by one
Decode(payload) ==
    LET s == from_utf8(payload)
    IN  IF s.some THEN s.val
        ELSE [i \in 1..Len(payload) |-> char_from_u32(payload[i])]

\* connect up to its loop, one await at a time: channel.unwrap() and
\* ws::connect(..).await.unwrap() while there is no socket, then the next of the
\* four send_string(..).await.unwrap().  wire holds the lines handed to the
\* socket, the one whose send failed included; ok: the awaited call gave Ok.
Handshake(s, ok) ==
    /\ sess[s].state = "handshake"
    /\ ~ok => nevents < MaxEvents
    /\ nevents' = IF ok THEN nevents ELSE nevents + 1
    /\ IF ~sess[s].cfg.channel.some
       THEN sess' = [sess EXCEPT ![s].state = "panicked"]
       ELSE IF ~sess[s].socket
       THEN sess' = [sess EXCEPT ![s].state = IF ok THEN "handshake" ELSE "panicked",
                                 ![s].socket = ok]
       ELSE LET k == Len(sess[s].wire) + 1
            IN  sess' = [sess EXCEPT
                    ![s].state = IF ~ok THEN "panicked"
                                 ELSE IF k = 4 THEN "loop" ELSE "handshake",
                    ![s].wire = Append(@, HandshakeLines(sess[s].cfg)[k])]
    /\ UNCHANGED <<hostVars, sup, lockVars, slot, nsess, chanVars, parseVars>>

\* the select! branch conn.receive_frame() => Ok(f), up to the send in
\* handle_websocket_message: the frame is consumed and decoded, the flag set or
\* a parser run; a message to publish is held by the handler (pending), and
\* the select! loop is not polled again before the send has completed
Frame(s, payload) ==
    /\ sess[s].state = "loop"
    /\ nevents < MaxEvents
    /\ LET msg == Decode(payload)
           r == handle_websocket_message(msg, sess[s].read_tags_allowed)
       IN  sess' = [sess EXCEPT
               ![s].state = IF r.panic THEN "panicked"
                            ELSE IF r.publish.some THEN "publishing" ELSE "loop",
               ![s].read_tags_allowed = r.tags,
               ![s].pending = IF r.publish.some THEN <<r.publish.val>> ELSE <<>>,
               ![s].nframes = @ + 1,
               ![s].lastFrame = msg]
    /\ nevents' = nevents + 1
    /\ UNCHANGED <<hostVars, sup, lockVars, slot, nsess, chanVars, parseVars>>

\* incoming_message_tx.send(user_message).await.expect(..) (chat.rs 179-182,
\* 187-190): Err, and the panic of expect, when the proxy worker's Receiver is
\* gone; otherwise the send completes once the channel has room
Publish(s) ==
    /\ sess[s].state = "publishing"
    /\ IF ~ProxyRuns(s)
       THEN sess' = [sess EXCEPT ![s].state = "panicked", ![s].pending = <<>>]
       ELSE /\ Len(sess[s].inq) < ChannelCapacity
            /\ sess' = [sess EXCEPT
                    ![s].state = "loop",
                    ![s].pending = <<>>,
                    ![s].inq = Append(@, sess[s].pending[1]),
                    ![s].inqFrame = Append(@, sess[s].nframes)]
    /\ UNCHANGED <<hostVars, sup, lockVars, slot, nsess, chanVars, nevents, parseVars>>

\* the select! branch conn.receive_frame() => Err(e): break, connect returns
FrameErr(s) ==
    /\ sess[s].state = "loop"
    /\ nevents < MaxEvents
    /\ nevents' = nevents + 1
    /\ sess' = [sess EXCEPT ![s].state = "returned"]
    /\ UNCHANGED <<hostVars, sup, lockVars, slot, nsess, chanVars, parseVars>>

\* the outgoing branch without last_sent_message = msg.clone()
OutgoingNoRecord(s) ==
    /\ sess[s].state = "loop"
    /\ sess[s].outq # <<>>
    /\ LET msg == Repeat(sess[s].last_sent_message, Head(sess[s].outq))
       IN  sess' = [sess EXCEPT
               ![s].outq = Tail(@),
               ![s].taken = Append(@, Head(sess[s].outq)),
               ![s].state = IF msg.some THEN "sending" ELSE "panicked",
               ![s].wire = IF msg.some
                           THEN Append(@, PrivmsgLine(sess[s].cfg.channel.val, msg.val))
                           ELSE @]
    /\ UNCHANGED <<hostVars, sup, lockVars, slot, nsess, chanVars, nevents, parseVars>>

\* the select! branch outgoing_message_rx.recv() => Some(msg), up to
\* conn.send_string(&fmt): the line is taken from the channel, the workaround
\* applied, the content recorded and the line handed to the socket (wire); the
\* select! loop is not polled again before send_string has completed
Outgoing(s) ==
    /\ sess[s].state = "loop"
    /\ sess[s].outq # <<>>
    /\ LET msg == Repeat(sess[s].last_sent_message, Head(sess[s].outq))
       IN  sess' = [sess EXCEPT
               ![s].outq = Tail(@),
               ![s].taken = Append(@, Head(sess[s].outq)),
               ![s].state = IF msg.some THEN "sending" ELSE "panicked",
               ![s].last_sent_message = IF msg.some THEN msg.val ELSE @,
               ![s].wire = IF msg.some
                           THEN Append(@, PrivmsgLine(sess[s].cfg.channel.val, msg.val))
                           ELSE @]
    /\ UNCHANGED <<hostVars, sup, lockVars, slot, nsess, chanVars, nevents, parseVars>>

\* conn.send_string(&fmt).await of the outgoing branch completes (chat.rs 160):
\* its result is discarded, the Session is back in its select! loop
OutgoingSent(s) ==
    /\ sess[s].state = "sending"
    /\ sess' = [sess EXCEPT ![s].state = "loop"]
    /\ UNCHANGED <<hostVars, sup, lockVars, slot, nsess, chanVars, nevents, parseVars>>

\* a proxy worker that takes the newest message of its channel first
ProxyRecvNewestFirst(s) ==
    /\ sess[s].held = <<>>
    /\ sess[s].inq # <<>>
    /\ ProxyRuns(s)
    /\ LET n == Len(sess[s].inq)
       IN  sess' = [sess EXCEPT ![s].held = <<sess[s].inq[n]>>,
                                ![s].heldFrame = <<sess[s].inqFrame[n]>>,
                                ![s].polling = TRUE,
                                ![s].inq = SubSeq(@, 1, n - 1),
                                ![s].inqFrame = SubSeq(@, 1, n - 1)]
    /\ UNCHANGED <<hostVars, sup, lockVars, slot, nsess, chanVars, nevents, parseVars>>

\* spawn_proxy_worker's loop, rx.recv().await gives Some(msg): the message
\* leaves the Session's channel and is held by the worker.  A worker that was
\* parked at recv is polled only if it has not been aborted; one that comes
\* from its send in the same poll runs on.
ProxyRecv(s) ==
    /\ sess[s].held = <<>>
    /\ sess[s].inq # <<>>
    /\ ProxyRuns(s)
    /\ sess' = [sess EXCEPT ![s].held = <<Head(sess[s].inq)>>,
                            ![s].heldFrame = <<Head(sess[s].inqFrame)>>,
                            ![s].polling = TRUE,
                            ![s].inq = Tail(@),
                            ![s].inqFrame = Tail(@)]
    /\ UNCHANGED <<hostVars, sup, lockVars, slot, nsess, chanVars, nevents, parseVars>>

\* spawn_proxy_worker's loop, tx.send(msg).await with the message held.  With
\* room in the durable channel the send completes in the poll that received
\* the message, and the worker goes on to recv, which is pending when the
\* Session's channel is empty.  Without room the worker is parked holding the
\* message; parked, it completes the send later only if it is not aborted.
ProxySend(s) ==
    /\ sess[s].held # <<>>
    /\ ProxyRuns(s)
    /\ IF Len(output) < ChannelCapacity
       THEN /\ output' = Append(output, sess[s].held[1])
            /\ proxied' = Append(proxied, sess[s].held[1])
            /\ outputFrom' = Append(outputFrom, <<s, sess[s].heldFrame[1]>>)
            /\ sess' = [sess EXCEPT ![s].held = <<>>, ![s].heldFrame = <<>>,
                                    ![s].polling = sess[s].inq # <<>>]
       ELSE /\ sess[s].polling
            /\ sess' = [sess EXCEPT ![s].polling = FALSE]
            /\ UNCHANGED <<output, proxied, outputFrom>>
    /\ UNCHANGED <<hostVars, sup, lockVars, slot, nsess, received, receivedFrom,
                   nevents, parseVars>>


\* ------------------------------------------------------------ supervise
\* the body of supervise's loop from the lock on (chat_controller.rs 107-115):
\* the new outgoing Sender goes into the slot, the proxy worker and the connect
\* task are spawned; the guard stays with the supervisor while it awaits connect
Install(g, base) ==
    LET s == nsess + 1
    IN  /\ nsess < MaxEvents
        /\ nsess' = s
        /\ slot' = s
        /\ sess' = [base EXCEPT ![s] = [NoSession EXCEPT !.state = "handshake",
                                                         !.sup = g,
                                                         !.cfg = sup[g].cfg,
                                                         !.proxy = "alive"]]
        /\ sup' = [sup EXCEPT ![g].pc = "await", ![g].cur = s]

\* the first poll of a spawned supervisor task: lock().await
SupStart(g) ==
    /\ sup[g].pc = "start"
    /\ ~sup[g].aborted
    /\ IF lockOwner = 0
       THEN /\ lockOwner' = g
            /\ UNCHANGED lockWaiters
            /\ Install(g, sess)
       ELSE /\ lockWaiters' = Append(lockWaiters, g)
            /\ sup' = [sup EXCEPT ![g].pc = "lockwait"]
            /\ UNCHANGED <<lockOwner, slot, nsess, sess>>
    /\ UNCHANGED <<hostVars, chanVars, nevents, parseVars>>

\* lock().await resolves for a supervisor that waited
SupGranted(g) ==
    /\ sup[g].pc = "lockwait"
    /\ ~sup[g].aborted
    /\ lockOwner = g
    /\ Install(g, sess)
    /\ UNCHANGED <<hostVars, lockVars, chanVars, nevents, parseVars>>

\* the connect task's JoinHandle resolves (chat_controller.rs 115-117):
\* proxy.abort(), and the guard is dropped at the end of the loop body.  The
\* supervisor is in the middle of a poll and goes on to the loop's next turn.
SupConnectDone(g) ==
    /\ sup[g].pc = "await"
    /\ ~sup[g].aborted
    /\ Ended(sup[g].cur)
    /\ sess' = [sess EXCEPT ![sup[g].cur].proxy = "aborted"]
    /\ lockOwner' = ReleasedOwner(lockWaiters)
    /\ lockWaiters' = ReleasedWaiters(lockWaiters)
    /\ sup' = [sup EXCEPT ![g].pc = "relock"]
    /\ UNCHANGED <<hostVars, slot, nsess, chanVars, nevents, parseVars>>

\* the loop's next turn in the same poll (chat_controller.rs 98-115), also for
\* a supervisor aborted since its JoinHandle resolved: lock().await takes the
\* free lock and the turn runs on to the await of the new connect task;
\* otherwise the supervisor waits in the lock's queue
SupRelock(g) ==
    /\ sup[g].pc = "relock"
    /\ IF lockOwner = 0
       THEN /\ lockOwner' = g
            /\ UNCHANGED lockWaiters
            /\ Install(g, sess)
       ELSE /\ lockWaiters' = Append(lockWaiters, g)
            /\ sup' = [sup EXCEPT ![g].pc = "lockwait"]
            /\ UNCHANGED <<lockOwner, slot, nsess, sess>>
    /\ UNCHANGED <<hostVars, chanVars, nevents, parseVars>>

\* JoinHandle::abort: the task is marked cancelled and polled no more; a poll
\* under way runs on to its next pending await.  A task that was never polled
\* holds nothing, so its future is gone at once; the others are dropped by the
\* runtime in a later step (SupDrop).
Abort(t) == IF t.pc = "start" THEN NoSup ELSE [t EXCEPT !.aborted = TRUE]

\* JoinHandle::abort takes effect: the runtime drops the supervisor's future,
\* with it the guard or the place in the wait queue.  The JoinHandles of the
\* connect task and of the proxy worker are dropped too, which detaches them.
SupDrop(g) ==
    /\ sup[g].pc \in {"lockwait", "await"}
    /\ sup[g].aborted
    /\ sup' = [sup EXCEPT ![g] = NoSup]
    /\ IF lockOwner = g
       THEN /\ lockOwner' = ReleasedOwner(lockWaiters)
            /\ lockWaiters' = ReleasedWaiters(lockWaiters)
       ELSE /\ lockWaiters' = Without(lockWaiters, g)
            /\ UNCHANGED lockOwner
    /\ UNCHANGED <<hostVars, slot, nsess, sess, chanVars, nevents, parseVars>>

\* ------------------------------------------------------------ Controller, Chat
\* Controller::join: abort the current handle, if any, then supervise
ControllerJoin(connect_config) ==
    /\ nevents < MaxEvents
    /\ nevents' = nevents + 1
    /\ nsup' = nsup + 1
    /\ handle' = nsup + 1
    /\ sup' = [g \in Sups |->
                 IF g = nsup + 1
                 THEN [pc |-> "start", aborted |-> FALSE, cfg |-> connect_config, cur |-> 0]
                 ELSE IF g = handle THEN Abort(sup[g])
                 ELSE sup[g]]

\* Chat::join
Join(channel) ==
    /\ sendPc = "idle"
    /\ config' = [config EXCEPT !.channel = Some(channel)]
    /\ ControllerJoin(ConnectConfig(config'))
    /\ UNCHANGED <<sendPc, sendText, lockVars, slot, nsess, sess, chanVars, parseVars>>

\* Chat::init when Config::load gave Ok(config) (on Err nothing changes)
ChatInit(loaded) ==
    /\ sendPc = "idle"
    /\ nevents < MaxEvents
    /\ nevents' = nevents + 1
    /\ config' = loaded
    /\ UNCHANGED <<handle, nsup, sup, sendPc, sendText, lockVars, slot, nsess, sess,
                   chanVars, parseVars>>

\* Config::set_initial_channel on Chat.config when the process has a first
\* argument (without one nothing changes): channel.insert(initial_channel)
set_initial_channel(initial_channel) ==
    /\ sendPc = "idle"
    /\ nevents < MaxEvents
    /\ nevents' = nevents + 1
    /\ config' = [config EXCEPT !.channel = Some(initial_channel)]
    /\ UNCHANGED <<handle, nsup, sup, sendPc, sendText, lockVars, slot, nsess, sess,
                   chanVars, parseVars>>

\* Chat::fetch_auth_token, Config::fetch_auth_token: oauth.insert(token)
fetch_auth_token(token) ==
    /\ sendPc = "idle"
    /\ nevents < MaxEvents
    /\ nevents' = nevents + 1
    /\ config' = [config EXCEPT !.oauth = Some(token)]
    /\ UNCHANGED <<handle, nsup, sup, sendPc, sendText, lockVars, slot, nsess, sess,
                   chanVars, parseVars>>

\* Chat::reconnect with a channel in the configuration (without one it prints)
Reconnect ==
    /\ sendPc = "idle"
    /\ config.channel.some
    /\ ControllerJoin(ConnectConfig(config))
    /\ UNCHANGED <<config, sendPc, sendText, lockVars, slot, nsess, sess, chanVars,
                   parseVars>>

\* Chat::leave, Controller::leave with a handle (without one it does nothing)
Leave ==
    /\ sendPc = "idle"
    /\ handle # 0
    /\ sup' = [sup EXCEPT ![handle] = Abort(@)]
    /\ handle' = 0
    /\ UNCHANGED <<config, nsup, sendPc, sendText, lockVars, slot, nsess, sess,
                   chanVars, nevents, parseVars>>

\* tx.send(chat_message) if the slot holds a Sender; an Err (the Receiver is
\* gone with its connect task) is discarded
Enqueue(chat_message) ==
    IF slot # 0 /\ Alive(slot)
    THEN /\ Len(sess[slot].outq) < ChannelCapacity
         /\ sess' = [sess EXCEPT ![slot].outq = Append(@, chat_message)]
    ELSE UNCHANGED sess

\* Chat::send, Controller::send up to websocket_tx.lock().await: the free lock
\* is taken, otherwise the call waits in the lock's queue
SendCall(chat_message, limit) ==
    /\ sendPc = "idle"
    /\ nevents < limit
    /\ nevents' = nevents + 1
    /\ sendText' = chat_message
    /\ sendPc' = "lock"
    /\ IF lockOwner = 0
       THEN lockOwner' = SENDER /\ UNCHANGED lockWaiters
       ELSE lockWaiters' = Append(lockWaiters, SENDER) /\ UNCHANGED lockOwner
    /\ UNCHANGED <<config, handle, nsup, sup, slot, nsess, sess, chanVars, parseVars>>

\* Controller::send with the guard: tx.send(chat_message).await, which waits
\* with the guard while the outgoing channel is full, then the guard drops
SendLocked ==
    /\ sendPc = "lock"
    /\ lockOwner = SENDER
    /\ Enqueue(sendText)
    /\ lockOwner' = ReleasedOwner(lockWaiters)
    /\ lockWaiters' = ReleasedWaiters(lockWaiters)
    /\ sendPc' = "idle"
    /\ UNCHANGED <<config, handle, nsup, sendText, sup, slot, nsess, chanVars,
                   nevents, parseVars>>

\* a receive that returns a default message when the channel has none
ReceivePlaceholder ==
    /\ sendPc = "idle"
    /\ received' = Append(received, IF output = <<>> THEN ChatMessage(<<>>, None, <<>>)
                                                     ELSE Head(output))
    /\ output' = IF output = <<>> THEN <<>> ELSE Tail(output)
    /\ receivedFrom' = Append(receivedFrom, IF output = <<>> THEN <<0, 0>>
                                                             ELSE Head(outputFrom))
    /\ outputFrom' = IF output = <<>> THEN <<>> ELSE Tail(outputFrom)
    /\ Len(received) < MaxEvents
    /\ UNCHANGED <<hostVars, sup, lockVars, slot, nsess, sess, proxied, nevents,
                   parseVars>>

\* Chat::receive: output.recv() gave Some(msg).  None means every Sender is
\* gone, and the Controller keeps proxy_tx
Receive ==
    /\ sendPc = "idle"
    /\ output # <<>>
    /\ received' = Append(received, Head(output))
    /\ output' = Tail(output)
    /\ receivedFrom' = Append(receivedFrom, Head(outputFrom))
    /\ outputFrom' = Tail(outputFrom)
    /\ UNCHANGED <<hostVars, sup, lockVars, slot, nsess, sess, proxied, nevents,
                   parseVars>>

\* ------------------------------------------------------------ the client
LINE_ACK == <<":","t","m","i",".","t","w","i","t","c","h",".","t","v"," ","C","A","P"," ","*"," ","A","C","K"," ",":","t","w","i","t","c","h",".","t","v","/","t","a","g","s",CR,LF>>
LINE_PLAIN == <<":","a","!","a"," ","P","R","I","V","M","S","G"," ","#","c","1"," ",":","h","i",CR,LF>>
LINE_TAGGED == <<"d","i","s","p","l","a","y","-","n","a","m","e","=","B",";","c","o","l","o","r","=","#","1"," ",":","a","!","a"," ","P","R","I","V","M","S","G"," ","#","c","1"," ",":","h","i",CR,LF>>
LINE_PING == <<"P","I","N","G"," ",":","t","m","i",".","t","w","i","t","c","h",".","t","v",CR,LF>>
LINE_UNTERMINATED == <<":","a","!","a"," ","P","R","I","V","M","S","G"," ","#","c","1"," ",":","h","i">>

LINE_LATIN1 == <<"!","a"," ","P","R","I","V","M","S","G"," ","#","c","1"," ",":","h","i",CR,LF>>

\* the payloads: the lines in UTF-8, and one that begins with the lone byte E9
FRAME_ACK == as_bytes(LINE_ACK)
FRAME_PLAIN == as_bytes(LINE_PLAIN)
FRAME_TAGGED == as_bytes(LINE_TAGGED)
FRAME_PING == as_bytes(LINE_PING)
FRAME_UNTERMINATED == as_bytes(LINE_UNTERMINATED)
FRAME_LATIN1 == <<233>> \o as_bytes(LINE_LATIN1)

Frames == {FRAME_ACK, FRAME_PLAIN, FRAME_TAGGED, FRAME_PING, FRAME_UNTERMINATED,
           FRAME_LATIN1}
SendTexts == {<<"a">>}
HandshakeOutcomes == BOOLEAN

\* what Config::load finds in the state file, what the token flow returns
LoadedConfigs ==
    {[channel |-> Some(<<"c","1">>), oauth |-> Some(<<"t","o","k">>),
      nick |-> Some(<<"m","e">>)]}
Tokens == {<<"t","o","k">>}
InitialChannels == {<<"c","2">>}

Next ==
    \/ \E c \in Channels : Join(c)
    \/ \E loaded \in LoadedConfigs : ChatInit(loaded)
    \/ \E token \in Tokens : fetch_auth_token(token)
    \/ \E c \in InitialChannels : set_initial_channel(c)
    \/ Reconnect
    \/ Leave
    \/ \E t \in SendTexts : SendCall(t, MaxEvents)
    \/ SendLocked
    \/ Receive
    \/ \E g \in Sups : SupStart(g)
    \/ \E g \in Sups : SupGranted(g)
    \/ \E g \in Sups : SupConnectDone(g)
    \/ \E g \in Sups : SupRelock(g)
    \/ \E g \in Sups : SupDrop(g)
    \/ \E s \in Sessions, ok \in HandshakeOutcomes : Handshake(s, ok)
    \/ \E s \in Sessions, f \in Frames : Frame(s, f)
    \/ \E s \in Sessions : Publish(s)
    \/ \E s \in Sessions : FrameErr(s)
    \/ \E s \in Sessions : Outgoing(s)
    \/ \E s \in Sessions : OutgoingSent(s)
    \/ \E s \in Sessions : ProxyRecv(s)
    \/ \E s \in Sessions : ProxySend(s)

Spec == Init /\ [][Next]_vars


\* ------------------------------------------------------------ one session's outgoing lines
\* The client after join(c1), the supervisor's start, the handshake, leave() and
\* the drop of the supervisor: session 1 runs detached, its Sender is in the
\* slot and the lock is free.
OutInit ==
    /\ config = [DefaultConfig EXCEPT !.channel = Some(<<"c","1">>)]
    /\ handle = 0
    /\ nsup = 1
    /\ sup = [g \in Sups |-> NoSup]
    /\ lockOwner = 0
    /\ lockWaiters = <<>>
    /\ slot = 1
    /\ nsess = 1
    /\ sess = [s \in Sessions |->
                 IF s = 1
                 THEN [NoSession EXCEPT
                         !.state = "loop", !.sup = 1,
                         !.cfg = ConnectConfig([DefaultConfig EXCEPT
                                                  !.channel = Some(<<"c","1">>)]),
                         !.proxy = "alive", !.socket = TRUE,
                         !.wire = HandshakeLines(ConnectConfig([DefaultConfig EXCEPT
                                                  !.channel = Some(<<"c","1">>)]))]
                 ELSE NoSession]
    /\ output = <<>>
    /\ received = <<>>
    /\ proxied = <<>>
    /\ outputFrom = <<>>
    /\ receivedFrom = <<>>
    /\ sendPc = "idle"
    /\ sendText = <<>>
    /\ nevents = 1
    /\ input = <<>>
    /\ parsed = Unparsed

\* the lines the host sends: empty, plain, with the marker at the end, with the
\* marker before the end
OutTexts ==
    {pre \o mid \o post : pre \in {<<>>, <<"a">>}, mid \in {<<>>, MARKER},
                          post \in {<<>>, <<"a">>}}

OutNext ==
    \/ \E t \in OutTexts : SendCall(t, MaxOut + 1)
    \/ SendLocked
    \/ \E s \in Sessions : Outgoing(s)
    \/ \E s \in Sessions : OutgoingSent(s)

SpecOut == OutInit /\ [][OutNext]_vars

\* ------------------------------------------------------------ the parser on its own
Strs(alphabet, n) == UNION {[1..k -> alphabet] : k \in 0..n}

ParseAlphabet == {":", "!", "a", " "}
ParseMiddles == {<<>>, <<" ">> \o PRIVMSG \o <<" ", "#", "c", "1", " ">>}
ParseEnds == {<<>>, CRLF}

ParseInputs ==
    {head \o mid \o tail \o end :
        head \in Strs(ParseAlphabet, MaxHead), mid \in ParseMiddles,
        tail \in Strs(ParseAlphabet, MaxTail), end \in ParseEnds}

\* the pieces of a tag list: display-name twice, with and without a value and
\* without '=', color with and without a value, another key
TagPieces ==
    { DISPLAY_NAME \o <<"=", "B">>, DISPLAY_NAME \o <<"=", "C">>, DISPLAY_NAME,
      COLOR \o <<"=", "#", "1">>, COLOR \o <<"=">>, <<"x", "=", "1">> }

\* pieces joined by sep
RECURSIVE JoinWith(_, _)
JoinWith(pieces, sep) ==
    IF pieces = <<>> THEN <<>>
    ELSE IF Len(pieces) = 1 THEN pieces[1]
    ELSE pieces[1] \o sep \o JoinWith(Tail(pieces), sep)

AuthorInfos == {<<"a", "!", "a", " ">> \o PRIVMSG \o <<" ", "#", "c", "1">>}
TaggedTexts == {<<>>, <<"h", "i">>, <<"h", "i", " ", ":", "x">>, <<":">>, <<"a", ";", "b", "!">>}

\* lines of the tagged shape '<tags> :<author-info> :<text>'
TaggedInputs ==
    {JoinWith(ts, <<";">>) \o <<" ", ":">> \o info \o <<" ", ":">> \o text \o end :
        ts \in Strs(TagPieces, MaxTags), info \in AuthorInfos,
        text \in TaggedTexts, end \in ParseEnds}

\* lines that begin with a character of more than one byte
NonAsciiInputs ==
    {<<c>> \o head \o <<" ">> \o PRIVMSG \o <<" ", "#", "c", "1", " ", ":", "h", "i">> \o end :
        c \in {"U+00E9", "U+20AC", TAG0},
        head \in {<<"!", "a">>, <<"a", "!", "a">>, <<"a">>}, end \in ParseEnds}

ParseInit ==
    /\ SystemInit
    /\ input \in ParseInputs \cup TaggedInputs \cup NonAsciiInputs
    /\ parsed = Unparsed

\* parse::format_user_message on the input
ParsePlain ==
    /\ parsed = Unparsed
    /\ parsed' = [by |-> "plain", result |-> format_user_message(input)]
    /\ UNCHANGED <<hostVars, sup, lockVars, slot, nsess, sess, chanVars, nevents, input>>

\* parse::format_user_message_with_tags on the input
ParseTagged ==
    /\ parsed = Unparsed
    /\ parsed' = [by |-> "tagged", result |-> format_user_message_with_tags(input)]
    /\ UNCHANGED <<hostVars, sup, lockVars, slot, nsess, sess, chanVars, nevents, input>>

ParseNext == ParsePlain \/ ParseTagged

SpecParse == ParseInit /\ [][ParseNext]_vars


\* ------------------------------------------------------------ properties
Started(s) == sess[s].state # "unused"
Dropped(g) == sup[g].pc = "unspawned"

\* the contents session s has handed to its socket after the four handshake
\* lines, each without its "PRIVMSG #<channel> :" prefix
Payloads(s) ==
    LET w == sess[s].wire
        n == Len(PrivmsgLine(sess[s].cfg.channel.val, <<>>))
    IN  [i \in 1..(Len(w) - 4) |-> SubSeq(w[i + 4], n + 1, Len(w[i + 4]))]

\* C1: join while a Session is active cancels the old Session and starts one on
\* the new channel: once the Session of a later join has been started, no
\* Session of an earlier supervisor still runs, and the Session of the current
\* handle carries the channel that the last join handed to the Controller.
C1_JoinCancelsOldSession ==
    /\ \A s, t \in Sessions :
          (Started(s) /\ Started(t) /\ sess[s].sup < sess[t].sup) => ~Alive(s)
    /\ \A t \in Sessions :
          (Started(t) /\ sess[t].sup = handle) =>
              sess[t].cfg.channel = sup[handle].cfg.channel

\* C2: leave() cancels the current Session: once leave() has been called and
\* the cancellation has taken effect (no handle, every supervisor task
\* dropped), no Session is alive, so none can publish what it reads.
C2_LeaveDestroysSession ==
    (handle = 0 /\ \A g \in Sups : Dropped(g)) => \A s \in Sessions : ~Alive(s)

\* C3: leave() followed by send(text) is a no-op: while there is no handle
\* (before the first join, and from a leave to the next join) no step puts a
\* line into a Session's outgoing channel.
C3_SendAfterLeaveIsNoop ==
    [][handle = 0 =>
          \A s \in Sessions : Len(sess'[s].outq) <= Len(sess[s].outq)]_vars

\* C4: send does not suspend except on a full outgoing channel: a send is never
\* left waiting while the slot's Session is installed and running with room in
\* its outgoing channel.
C4_SendDoesNotWait ==
    ~(/\ sendPc = "lock"
      /\ slot # 0
      /\ Alive(slot)
      /\ Len(sess[slot].outq) < ChannelCapacity
      /\ lockOwner = sess[slot].sup
      /\ sup[lockOwner].pc = "await"
      /\ sup[lockOwner].cur = slot)

\* C5: the Supervisor does not retry on its own: a Session is started only by
\* a supervisor task that has had none yet, that is, only after a join or
\* reconnect of the host.
C5_NoAutoRetry ==
    [][\A s \in Sessions :
          (~Started(s) /\ sess'[s].state # "unused") => sup[sess'[s].sup].cur = 0]_vars

\* C6 as claimed: the same non-empty text t without the marker, sent in a row
\* through one Session, goes out as t, t + marker, t (and t + marker again).
C6_RepeatAlternates ==
    \A s \in Sessions : \A i \in 1..Len(sess[s].taken) :
        LET taken == sess[s].taken
            t == taken[i]
            n == Len(taken)
        IN  (t # <<>> /\ ~Contains(t, MARKER) /\ (i = 1 \/ taken[i - 1] # t))
            => /\ (i + 1 <= n /\ taken[i + 1] = t)
                  => Payloads(s)[i] = t /\ Payloads(s)[i + 1] = t \o MARKER
               /\ (i + 2 <= n /\ taken[i + 1] = t /\ taken[i + 2] = t)
                  => Payloads(s)[i + 2] = t
               /\ (i + 3 <= n /\ taken[i + 1] = t /\ taken[i + 2] = t /\ taken[i + 3] = t)
                  => Payloads(s)[i + 3] = t \o MARKER

\* C6 as amended: the same, provided the content transmitted just before the
\* first of these sends is not t itself.
C6_RepeatAlternatesAfterOther ==
    \A s \in Sessions : \A i \in 1..Len(sess[s].taken) :
        LET taken == sess[s].taken
            t == taken[i]
            n == Len(taken)
        IN  (/\ t # <<>> /\ ~Contains(t, MARKER) /\ (i = 1 \/ taken[i - 1] # t)
             /\ (i = 1 \/ Payloads(s)[i - 1] # t))
            => /\ (i + 1 <= n /\ taken[i + 1] = t)
                  => Payloads(s)[i] = t /\ Payloads(s)[i + 1] = t \o MARKER
               /\ (i + 2 <= n /\ taken[i + 1] = t /\ taken[i + 2] = t)
                  => Payloads(s)[i + 2] = t
               /\ (i + 3 <= n /\ taken[i + 1] = t /\ taken[i + 2] = t /\ taken[i + 3] = t)
                  => Payloads(s)[i + 3] = t \o MARKER

\* "aa" went out after another line, then three times in a row
C6_Witness ==
    /\ sess[1].taken = << <<"a">>, <<"a","a">>, <<"a","a">>, <<"a","a">> >>
    /\ Payloads(1) = << <<"a">>, <<"a","a">>, <<"a","a">> \o MARKER, <<"a","a">> >>

\* the marker toggle of the workaround: stripped from the end if there,
\* appended if not
Toggle(content) ==
    IF strip_suffix(content, MARKER).some
    THEN strip_suffix(content, MARKER).val
    ELSE content \o MARKER

\* C7: an empty line right after a non-empty one repeats the previous line: it
\* goes out as the last transmitted content with the marker toggled, and that
\* is recorded as last transmitted.
C7_EmptyRepeatsLast ==
    \A s \in Sessions : \A i \in 2..Len(sess[s].taken) :
        (sess[s].taken[i] = <<>> /\ sess[s].taken[i - 1] # <<>>)
        => /\ i <= Len(Payloads(s))
           /\ Payloads(s)[i] = Toggle(Payloads(s)[i - 1])
           /\ i = Len(sess[s].taken) => sess[s].last_sent_message = Payloads(s)[i]

\* C8: receive() returns only what a proxy worker put on the durable channel,
\* each message once and in the channel's order, and cannot return while the
\* channel is empty.
C8_ReceiveReturnsProxied ==
    /\ proxied = received \o output
    /\ \A i \in 1..Len(received) :
          DOMAIN received[i] = {"author", "color", "message"}
    /\ output = <<>> => ~ENABLED Receive

\* a message has been returned and none is waiting
C8_Witness == Len(received) >= 1 /\ output = <<>> /\ proxied = received

\* C9: malformed input never terminates the parsing path: both parsers return
\* a ChatMessage or "no message" for every input line.
C9_ParserNeverPanics ==
    parsed = Unparsed \/ parsed.result.kind \in {"some", "none"}

\* the input is ':' author '!' rest ':' text CRLF with '!' at i and the ':'
\* that introduces the text at j
PlainShape(i, j) ==
    /\ Len(input) >= 2
    /\ SubSeq(input, Len(input) - 1, Len(input)) = CRLF
    /\ input[1] = ":"
    /\ 2 < i /\ i < j /\ j <= Len(input) - 2
    /\ input[i] = "!"
    /\ \A k \in 2..(i - 1) : input[k] \notin {"!", ":"}
    /\ input[j] = ":"
    /\ \A k \in (i + 1)..(j - 1) : input[k] # ":"

\* C10: on a line ':<author>!<rest> PRIVMSG #<channel> :<text>' with a non-empty
\* author and no ':' in <rest>, as it arrives with its terminator,
\* format_user_message gives the author between the leading ':' and the first
\* '!', the text after the second ':' (with the ':' it holds), and no color.
C10_PlainShapeParsed ==
    (parsed # Unparsed /\ parsed.by = "plain")
    => \A i, j \in 1..Len(input) :
          PlainShape(i, j)
          => parsed.result = Message(ChatMessage(SubSeq(input, 2, i - 1), None,
                                                 SubSeq(input, j + 1, Len(input) - 2)))

\* a PRIVMSG line whose text holds a ':' has been parsed
C10_Witness ==
    /\ parsed # Unparsed /\ parsed.by = "plain"
    /\ Contains(input, PRIVMSG)
    /\ \E i, j \in 1..Len(input) :
          /\ PlainShape(i, j)
          /\ Contains(SubSeq(input, j + 1, Len(input) - 2), <<":">>)
          /\ parsed.result.kind = "some"

\* the input is one line with its terminator at the end and nowhere else
Terminated == Len(input) >= 2 /\ Find(input, CRLF) = Len(input) - 1

\* the line without its terminator
Line == SubSeq(input, 1, Len(input) - 2)

\* C11: on every line without a '!', as it arrives with its terminator,
\* format_user_message gives "no message", and handle_websocket_message
\* publishes nothing for it while no tags are expected.
C11_NoBangNoMessage ==
    (parsed # Unparsed /\ parsed.by = "plain" /\ Terminated /\ ~Contains(input, <<"!">>))
    => /\ parsed.result = NoMessage
       /\ ~handle_websocket_message(input, FALSE).publish.some

\* a PRIVMSG line without '!' has been parsed as the untagged shape
C11_Witness ==
    /\ parsed # Unparsed /\ parsed.by = "plain"
    /\ Terminated /\ ~Contains(input, <<"!">>)
    /\ Contains(input, PRIVMSG) /\ Contains(input, <<":">>)
    /\ parsed.result = NoMessage

\* the line is '<tags> :<author-info> :<text>': the first " :" is at i, the
\* next one after it at j
TaggedShape(i, j) ==
    /\ 1 <= i /\ i + 2 <= j /\ j + 1 <= Len(input) - 2
    /\ input[i] = " " /\ input[i + 1] = ":"
    /\ input[j] = " " /\ input[j + 1] = ":"
    /\ Terminated
    /\ \A k \in 1..(i - 1) : SubSeq(input, k, k + 1) # <<" ", ":">>
    /\ \A k \in (i + 2)..(j - 1) : SubSeq(input, k, k + 1) # <<" ", ":">>

\* the value of the last 'key=value' among the ';'-separated pieces of tags
LastTag(tags, key) ==
    LET pieces == split(tags, ";")
        prefix == key \o <<"=">>
        hits == {k \in 1..Len(pieces) :
                    /\ Len(pieces[k]) >= Len(prefix)
                    /\ SubSeq(pieces[k], 1, Len(prefix)) = prefix}
    IN  IF hits = {} THEN None
        ELSE LET k == CHOOSE k \in hits : \A h \in hits : h <= k
             IN  Some(SubSeq(pieces[k], Len(prefix) + 1, Len(pieces[k])))

\* C12: on a line '<tags> :<author-info> :<text>' whose tags hold a
\* display-name pair, as it arrives with its terminator,
\* format_user_message_with_tags gives the value of the last display-name pair
\* as author, the value of the last color pair, if any, as color, and
\* everything after the second " :" as text; pieces without '=' do not count.
C12_TaggedShapeParsed ==
    (parsed # Unparsed /\ parsed.by = "tagged")
    => \A i, j \in 1..Len(input) :
          (TaggedShape(i, j) /\ LastTag(SubSeq(Line, 1, i - 1), DISPLAY_NAME).some)
          => parsed.result =
               Message(ChatMessage(LastTag(SubSeq(Line, 1, i - 1), DISPLAY_NAME).val,
                                   LastTag(SubSeq(Line, 1, i - 1), COLOR),
                                   SubSeq(Line, j + 2, Len(Line))))

\* a line with two display-name pairs and a text that holds " :" has been
\* parsed as the tagged shape: the author is the second value
C12_Witness ==
    /\ parsed # Unparsed /\ parsed.by = "tagged"
    /\ \E i, j \in 1..Len(input) :
          /\ TaggedShape(i, j)
          /\ SubSeq(Line, 1, i - 1) =
                DISPLAY_NAME \o <<"=", "B", ";">> \o DISPLAY_NAME \o <<"=", "C">>
          /\ Contains(SubSeq(Line, j + 2, Len(Line)), <<" ", ":">>)
    /\ parsed.result.kind = "some"
    /\ parsed.result.msg.author = <<"C">>

\* the tags of the line: what stands before the first " :", the whole line when
\* there is none
TagsOf(l) ==
    IF Find(l, <<" ", ":">>) = 0 THEN l ELSE SubSeq(l, 1, Find(l, <<" ", ":">>) - 1)

\* C13: on every line whose tags hold no display-name pair, whatever other
\* tags they hold, format_user_message_with_tags gives "no message", and
\* handle_websocket_message publishes nothing for it while tags are expected.
C13_NoDisplayNameNoMessage ==
    (/\ parsed # Unparsed /\ parsed.by = "tagged" /\ Terminated
     /\ ~LastTag(TagsOf(Line), DISPLAY_NAME).some)
    => /\ parsed.result = NoMessage
       /\ ~handle_websocket_message(input, TRUE).publish.some

\* a tagged PRIVMSG line with a color and without display-name has been parsed
C13_Witness ==
    /\ parsed # Unparsed /\ parsed.by = "tagged"
    /\ \E i, j \in 1..Len(input) :
          /\ TaggedShape(i, j)
          /\ LastTag(SubSeq(Line, 1, i - 1), COLOR) = Some(<<"#", "1">>)
          /\ ~LastTag(SubSeq(Line, 1, i - 1), DISPLAY_NAME).some
    /\ Contains(input, PRIVMSG)
    /\ parsed.result = NoMessage

\* the frames of session s whose messages are on their way to the host or with
\* it: returned by receive(), in the durable channel, held by the proxy worker,
\* in the Session's channel, held by the Session's handler
Pipeline(s) ==
    LET returned == SelectSeq(receivedFrom \o outputFrom, LAMBDA o : o[1] = s)
    IN  [i \in 1..Len(returned) |-> returned[i][2]]
        \o sess[s].heldFrame \o sess[s].inqFrame
        \o (IF sess[s].pending = <<>> THEN <<>> ELSE <<sess[s].nframes>>)

\* C14: the messages of one Session reach receive() in the order of the
\* socket frames they came from, none twice: along the way from the Session's
\* handler over its channel, the proxy worker and the durable channel to what
\* receive() has returned, the frame numbers of a Session's messages only
\* grow, and each message stands where its origin is recorded.
C14_InboundOrder ==
    /\ Len(receivedFrom) = Len(received) /\ Len(outputFrom) = Len(output)
    /\ \A s \in Sessions :
          /\ Len(sess[s].inqFrame) = Len(sess[s].inq)
          /\ Len(sess[s].heldFrame) = Len(sess[s].held)
          /\ Len(sess[s].held) <= 1 /\ Len(sess[s].pending) <= 1
          /\ \A i, j \in 1..Len(Pipeline(s)) :
                i < j => Pipeline(s)[i] < Pipeline(s)[j]
          /\ \A i \in 1..Len(Pipeline(s)) : Pipeline(s)[i] \in 1..sess[s].nframes

\* receive() has returned two different messages of session 1, the first from
\* its first frame, the second from a later one
C14_Witness ==
    /\ Len(received) = 2
    /\ received[1] # received[2]
    /\ receivedFrom[1] = <<1, 1>>
    /\ receivedFrom[2][1] = 1 /\ receivedFrom[2][2] > 1

\* C15: the slot and the handle refer to the same Session generation: whenever
\* the slot holds an outgoing Sender, it is the Sender of a Session started by
\* the supervisor task the handle names.
C15_SlotMatchesHandle ==
    slot # 0 => (handle # 0 /\ sess[slot].sup = handle)

\* C16: a cancelled Session's proxy worker ends with it: no proxy worker of a
\* Session whose supervisor has been cancelled and dropped is alive, and at
\* most one proxy worker is alive at any time.
C16_ProxyDiesWithSession ==
    /\ \A s \in Sessions :
          (Started(s) /\ Dropped(sess[s].sup)) => sess[s].proxy # "alive"
    /\ Cardinality({s \in Sessions : sess[s].proxy = "alive"}) <= 1

\* C17: servicing an outgoing line never ends the Session: a step in which a
\* Session in its loop takes a line from its outgoing channel leaves the
\* Session running (handing the line to its socket), whatever the line.
C17_OutgoingNeverEnds ==
    [][\A s \in Sessions :
          (sess[s].state = "loop" /\ Len(sess'[s].taken) > Len(sess[s].taken))
          => sess'[s].state \in {"loop", "sending"}]_vars

\* C18: every content a Session hands to its socket differs from the one it
\* handed over just before, and last_sent_message is the content handed over
\* last (empty before the first).
C18_PayloadsDiffer ==
    \A s \in Sessions :
        Len(sess[s].wire) >= 4
        => /\ \A i \in 2..Len(Payloads(s)) : Payloads(s)[i] # Payloads(s)[i - 1]
           /\ sess[s].last_sent_message =
                 IF Payloads(s) = <<>> THEN <<>> ELSE Payloads(s)[Len(Payloads(s))]

\* "a", an empty line and "a" with the marker went out as "a", "a" with the
\* marker, "a"
C18_Witness ==
    /\ sess[1].taken = << <<"a">>, <<>>, <<"a">> \o MARKER >>
    /\ Payloads(1) = << <<"a">>, <<"a">> \o MARKER, <<"a">> >>
    /\ sess[1].last_sent_message = <<"a">>

\* C20: no message is lost when a Session ends: after a Session's socket read
\* has failed, its proxy worker is not stopped while it holds a message or its
\* channel still holds messages it has not forwarded.
C20_NoMessageLost ==
    \A s \in Sessions :
        (sess[s].state = "returned" /\ sess[s].proxy = "aborted" /\ ~sess[s].polling)
        => (sess[s].inq = <<>> /\ sess[s].held = <<>>)

\* the line acknowledges the tags capability; the line holds the chat-message
\* marker
IsAck(l) == Contains(l, ACK_TAGS)
HasChatMarker(l) == Contains(l, PRIVMSG)

\* C19: read_tags_allowed is false in a new Session, turns true only in a step
\* that handles an acknowledgment line and never turns false; the handler
\* takes up a message to publish only for a line with the chat-message marker
\* that is no acknowledgment, and it is what format_user_message_with_tags makes
\* of the line if the flag was true when the line arrived, what
\* format_user_message makes of it otherwise; and nothing enters the Session's
\* channel but the message the handler has taken up for the line handled last.
C19_InboundDispatch ==
    [][\A s \in Sessions :
          LET l == sess'[s].lastFrame
              before == sess[s].read_tags_allowed
              after == sess'[s].read_tags_allowed
              handled == sess'[s].nframes = sess[s].nframes + 1
              taken_up == sess'[s].pending # <<>> /\ sess'[s].pending # sess[s].pending
              published == Len(sess'[s].inq) > Len(sess[s].inq)
              r == IF before THEN format_user_message_with_tags(l)
                   ELSE format_user_message(l)
          IN  /\ (~Started(s) /\ sess'[s].state # "unused") => ~after
              /\ (Started(s) /\ before) => after
              /\ (~before /\ after) => (handled /\ IsAck(l))
              /\ (handled /\ IsAck(l)) => (after /\ sess'[s].pending = <<>>)
              /\ (handled /\ ~HasChatMarker(l)) => sess'[s].pending = <<>>
              /\ handled => (sess[s].pending = <<>> /\ ~published)
              /\ taken_up
                 => /\ handled /\ HasChatMarker(l) /\ ~IsAck(l)
                    /\ r.kind = "some"
                    /\ sess'[s].pending = <<r.msg>>
              /\ published
                 => /\ sess[s].pending # <<>>
                    /\ sess'[s].inq = Append(sess[s].inq, sess[s].pending[1])
                    /\ sess'[s].pending = <<>>
                    /\ l = sess[s].lastFrame
                    /\ HasChatMarker(l) /\ ~IsAck(l)
                    /\ r.kind = "some" /\ r.msg = sess[s].pending[1]]_vars

\* after the acknowledgment a tagged line has been handled and what
\* format_user_message_with_tags makes of it published
C19_Witness ==
    /\ sess[1].nframes = 2
    /\ sess[1].read_tags_allowed
    /\ sess[1].lastFrame = LINE_TAGGED
    /\ sess[1].pending = <<>>
    /\ sess[1].inq = << ChatMessage(<<"B">>, Some(<<"#", "1">>), <<"h", "i">>) >>

====
